---- MODULE Spec2Model ----
(***************************************************************************)
(* cgLogger: a gorm logger whose Trace fires user callbacks ("triggers")   *)
(* before it writes the trace line.  The model keeps a heap of             *)
(* customLogger objects (the Go code hands out pointers to them), the      *)
(* references the application holds, and the events of the last call.      *)
(* Durations are counted in milliseconds.                                  *)
(***************************************************************************)
EXTENDS Integers, Sequences, FiniteSets, TLC

VARIABLES heap, cRefs, asserted, logModeRefs, fixRefs, last, out, nops

vars == <<heap, cRefs, asserted, logModeRefs, fixRefs, last, out, nops>>

-----------------------------------------------------------------------------
(* Bounds of the model *)

MaxLoggers == 2
MaxOps == 3

(* gorm's logger.LogLevel: Silent = iota + 1, Error, Warn, Info *)
lgSilent == 1
lgError == 2
lgWarn == 3
lgInfo == 4

(* a Config left at its zero value has LogLevel 0 *)
Levels == 0..lgInfo

(* func(g GormInfos) values: Nil is the nil func, the others are distinct
   functions of the application *)
Nil == "nil"
Funcs == {"f1", "f2"}
FuncVals == Funcs \cup {Nil}

(* time.Duration values, in milliseconds *)
Thresholds == {0, 200}
TriggerDurations == {0, 100, 250}
Elapsed == {50, 200, 250}

(* error values handed to Trace *)
NoErr == "<nil>"
ErrRecordNotFound == "record not found"
WrappedNotFound == "find user: record not found"
OtherErr == "duplicate key"
Errs == {NoErr, ErrRecordNotFound, WrappedNotFound, OtherErr}

(* rowsAffected values returned by fc() *)
RowCounts == {-1, 3}
Sql == "SELECT 1"

(* utils.FileWithLineNum() *)
FileWithLineNum == "main.go:42"

-----------------------------------------------------------------------------
(* Colors *)

Reset == "\\033[0m"
Red == "\\033[31m"
Green == "\\033[32m"
Yellow == "\\033[33m"
Magenta == "\\033[35m"
BlueBold == "\\033[34;1m"
MagentaBold == "\\033[35;1m"
RedBold == "\\033[31;1m"

-----------------------------------------------------------------------------
(* Config and New *)

Config(slow, colorful, ignore, level) ==
    [SlowThreshold |-> slow, Colorful |-> colorful,
     IgnoreRecordNotFoundError |-> ignore, LogLevel |-> level]

Configs ==
    {Config(s, c, i, lv) : s \in Thresholds, c \in BOOLEAN, i \in BOOLEAN, lv \in Levels}

(* the configurations the application of the state machine passes to New *)
AppConfigs ==
    {Config(200, FALSE, FALSE, lgWarn), Config(0, FALSE, TRUE, lgInfo)}

(* the zero value of the embedded Execution struct *)
Execution ==
    [always |-> Nil, warns |-> Nil, slowSqlTrigger |-> 0, errors |-> Nil,
     considerRecordNotFoundError |-> FALSE]

(* the six templates New selects by config.Colorful *)
Templates(colorful) ==
    IF colorful
    THEN [infoStr |-> Green \o "%s\n" \o Reset \o Green \o "[info] " \o Reset,
          warnStr |-> BlueBold \o "%s\n" \o Reset \o Magenta \o "[warn] " \o Reset,
          errStr |-> Magenta \o "%s\n" \o Reset \o Red \o "[error] " \o Reset,
          traceStr |-> Green \o "%s\n" \o Reset \o Yellow \o "[%.3fms] " \o BlueBold
                       \o "[rows:%v]" \o Reset \o " %s",
          traceWarnStr |-> Green \o "%s " \o Yellow \o "%s\n" \o Reset \o RedBold
                       \o "[%.3fms] " \o Yellow \o "[rows:%v]" \o Magenta \o " %s" \o Reset,
          traceErrStr |-> RedBold \o "%s " \o MagentaBold \o "%s\n" \o Reset \o Yellow
                       \o "[%.3fms] " \o BlueBold \o "[rows:%v]" \o Reset \o " %s"]
    ELSE [infoStr |-> "%s\n[info] ",
          warnStr |-> "%s\n[warn] ",
          errStr |-> "%s\n[error] ",
          traceStr |-> "%s\n[%.3fms] [rows:%v] %s",
          traceWarnStr |-> "%s %s\n[%.3fms] [rows:%v] %s",
          traceErrStr |-> "%s %s\n[%.3fms] [rows:%v] %s"]

(* the customLogger New builds: Config, zero Execution, templates *)
customLogger(config) ==
    [Config |-> config, Execution |-> Execution, tmpl |-> Templates(config.Colorful)]

(* var Default = New(..., Config{SlowThreshold: 200ms, LogLevel: Warn, Colorful: true}) *)
DefaultConfig == Config(200, TRUE, FALSE, lgWarn)

-----------------------------------------------------------------------------
(* Formatting of the arguments Printf receives *)

(* fmt's %v of a time.Duration of ms milliseconds below one second *)
DurationString(ms) == IF ms = 0 THEN "0s" ELSE ToString(ms) \o "ms"

(* float64(elapsed.Nanoseconds())/1e6 under %.3f, for whole milliseconds *)
Millis3(ms) == ToString(ms) \o ".000"

(* the rows argument under %v: "-" when rows == -1, the integer otherwise *)
RowsArg(rows) == IF rows = -1 THEN "-" ELSE ToString(rows)

(* errors.Is(err, ErrRecordNotFound) *)
IsRecordNotFound(err) == err \in {ErrRecordNotFound, WrappedNotFound}

-----------------------------------------------------------------------------
(* Trace *)

(* the GormInfos value Trace hands to every callback *)
GormInfos(elapsed, rows, err) ==
    [Location |-> FileWithLineNum, AffectedRows |-> rows,
     QueryDuration |-> Millis3(elapsed), Sql |-> Sql, Err |-> err]

(* the invocation of the function held in a trigger slot *)
Call(slot, f, g) == [kind |-> "call", slot |-> slot, fn |-> f, g |-> g]

(* l.Printf(format, args...) on the embedded Writer *)
Printf(format, args) == [kind |-> "printf", format |-> format, args |-> args]

(* if l.always != nil *)
AlwaysFires(l) == l.Execution.always # Nil

(* SlowFires with the two thresholds collapsed: compares with SlowThreshold *)
SlowFires_FormatThreshold(l, elapsed) ==
    /\ l.Config.SlowThreshold # 0
    /\ elapsed > l.Config.SlowThreshold
    /\ l.Execution.warns # Nil

(* if l.slowSqlTrigger != 0 && elapsed > l.slowSqlTrigger && l.warns != nil *)
SlowFires(l, elapsed) ==
    /\ l.Execution.slowSqlTrigger # 0
    /\ elapsed > l.Execution.slowSqlTrigger
    /\ l.Execution.warns # Nil

(* ErrorFires gated by the Config flag instead of considerRecordNotFoundError *)
ErrorFires_IgnoreFlag(l, err) ==
    /\ err # NoErr
    /\ (~IsRecordNotFound(err) \/ ~l.Config.IgnoreRecordNotFoundError)
    /\ l.Execution.errors # Nil

(* if err != nil && (!errors.Is(err, ErrRecordNotFound) ||
   l.considerRecordNotFoundError) && l.errors != nil *)
ErrorFires(l, err) ==
    /\ err # NoErr
    /\ (~IsRecordNotFound(err) \/ l.Execution.considerRecordNotFoundError)
    /\ l.Execution.errors # Nil

(* TriggerCalls with the error trigger moved before the slow trigger *)
TriggerCalls_ErrorsFirst(l, g, elapsed) ==
    (IF AlwaysFires(l) THEN <<Call("always", l.Execution.always, g)>> ELSE <<>>)
    \o (IF ErrorFires(l, g.Err) THEN <<Call("errors", l.Execution.errors, g)>> ELSE <<>>)
    \o (IF SlowFires(l, elapsed) THEN <<Call("warns", l.Execution.warns, g)>> ELSE <<>>)

(* the three trigger statements of Trace, in program order *)
TriggerCalls(l, g, elapsed) ==
    (IF AlwaysFires(l) THEN <<Call("always", l.Execution.always, g)>> ELSE <<>>)
    \o (IF SlowFires(l, elapsed) THEN <<Call("warns", l.Execution.warns, g)>> ELSE <<>>)
    \o (IF ErrorFires(l, g.Err) THEN <<Call("errors", l.Execution.errors, g)>> ELSE <<>>)

(* slowSql := elapsed > l.SlowThreshold && l.SlowThreshold != 0 *)
slowSql(l, elapsed) ==
    elapsed > l.Config.SlowThreshold /\ l.Config.SlowThreshold # 0

(* ErrCase gated by considerRecordNotFoundError instead of the Config flag *)
ErrCase_ConsiderFlag(l, err) ==
    /\ err # NoErr
    /\ l.Config.LogLevel >= lgError
    /\ (~IsRecordNotFound(err) \/ l.Execution.considerRecordNotFoundError)

(* first case of the switch *)
ErrCase(l, err) ==
    /\ err # NoErr
    /\ l.Config.LogLevel >= lgError
    /\ (~IsRecordNotFound(err) \/ ~l.Config.IgnoreRecordNotFoundError)

(* second case of the switch *)
SlowCase(l, elapsed) == slowSql(l, elapsed) /\ l.Config.LogLevel >= lgWarn

(* third case of the switch *)
InfoCase(l) == l.Config.LogLevel = lgInfo

(* slowLog := fmt.Sprintf("SLOW SQL >= %v", l.SlowThreshold) *)
slowLog(l) == "SLOW SQL >= " \o DurationString(l.Config.SlowThreshold)

(* TraceSwitch with the slow case tried before the error case *)
TraceSwitch_SlowFirst(l, elapsed, rows, err) ==
    IF SlowCase(l, elapsed)
    THEN <<Printf(l.tmpl.traceWarnStr,
                  <<FileWithLineNum, slowLog(l), Millis3(elapsed), RowsArg(rows), Sql>>)>>
    ELSE IF ErrCase(l, err)
    THEN <<Printf(l.tmpl.traceErrStr,
                  <<FileWithLineNum, err, Millis3(elapsed), RowsArg(rows), Sql>>)>>
    ELSE IF InfoCase(l)
    THEN <<Printf(l.tmpl.traceStr,
                  <<FileWithLineNum, Millis3(elapsed), RowsArg(rows), Sql>>)>>
    ELSE <<>>

(* the switch of Trace: the Printf of the first case that matches *)
TraceSwitch(l, elapsed, rows, err) ==
    IF ErrCase(l, err)
    THEN <<Printf(l.tmpl.traceErrStr,
                  <<FileWithLineNum, err, Millis3(elapsed), RowsArg(rows), Sql>>)>>
    ELSE IF SlowCase(l, elapsed)
    THEN <<Printf(l.tmpl.traceWarnStr,
                  <<FileWithLineNum, slowLog(l), Millis3(elapsed), RowsArg(rows), Sql>>)>>
    ELSE IF InfoCase(l)
    THEN <<Printf(l.tmpl.traceStr,
                  <<FileWithLineNum, Millis3(elapsed), RowsArg(rows), Sql>>)>>
    ELSE <<>>

(* Trace with the Silent return moved before the triggers *)
Trace_SilentFirst(l, elapsed, rows, err) ==
    IF l.Config.LogLevel <= lgSilent
    THEN <<>>
    ELSE TriggerCalls(l, GormInfos(elapsed, rows, err), elapsed)
         \o TraceSwitch(l, elapsed, rows, err)

(* Trace on a copy l of the receiver: the events it produces, in order *)
Trace(l, elapsed, rows, err) ==
    TriggerCalls(l, GormInfos(elapsed, rows, err), elapsed)
    \o (IF l.Config.LogLevel <= lgSilent THEN <<>> ELSE TraceSwitch(l, elapsed, rows, err))

(* the plain-message methods: one Printf when the level allows it *)
Info(l, msg) ==
    IF l.Config.LogLevel >= lgInfo
    THEN <<Printf(l.tmpl.infoStr \o msg, <<FileWithLineNum>>)>> ELSE <<>>

Warn(l, msg) ==
    IF l.Config.LogLevel >= lgWarn
    THEN <<Printf(l.tmpl.warnStr \o msg, <<FileWithLineNum>>)>> ELSE <<>>

Error(l, msg) ==
    IF l.Config.LogLevel >= lgError
    THEN <<Printf(l.tmpl.errStr \o msg, <<FileWithLineNum>>)>> ELSE <<>>

-----------------------------------------------------------------------------
(* Operations on the heap of customLogger objects.  Each returns the new heap
   and the object the returned interface value points to. *)

(* return &customLogger{...} *)
New(h, config) ==
    [heap |-> Append(h, customLogger(config)), ret |-> Len(h) + 1]

(* LogMode that sets the level on the receiver before it copies *)
LogMode_MutateThenCopy(h, l, level) ==
    [heap |-> Append([h EXCEPT ![l].Config.LogLevel = level],
                     [h[l] EXCEPT !.Config.LogLevel = level]),
     ret |-> Len(h) + 1]

(* LogMode that sets the level in place and returns the receiver *)
LogMode_InPlace(h, l, level) ==
    [heap |-> [h EXCEPT ![l].Config.LogLevel = level], ret |-> l]

(* newLogger := *l; newLogger.LogLevel = level; return &newLogger *)
LogMode(h, l, level) ==
    [heap |-> Append(h, [h[l] EXCEPT !.Config.LogLevel = level]), ret |-> Len(h) + 1]

(* return l *)
FixTriggers(h, l) == [heap |-> h, ret |-> l]

(* AlwaysTrigger on an Execution shared by every logger *)
AlwaysTrigger_Shared(h, l, f) ==
    [heap |-> [o \in DOMAIN h |-> [h[o] EXCEPT !.Execution.always = f]], ret |-> l]

(* l.always = f; return l *)
AlwaysTrigger(h, l, f) ==
    [heap |-> [h EXCEPT ![l].Execution.always = f], ret |-> l]

(* l.warns = f; l.slowSqlTrigger = duration; return l *)
SlowTrigger(h, l, f, duration) ==
    [heap |-> [h EXCEPT ![l].Execution.warns = f,
                        ![l].Execution.slowSqlTrigger = duration],
     ret |-> l]

(* ErrorTrigger that registers on a copy and returns the copy *)
ErrorTrigger_Copy(h, l, f) ==
    [heap |-> Append(h, [h[l] EXCEPT !.Execution.errors = f]), ret |-> Len(h) + 1]

(* l.errors = f; return l *)
ErrorTrigger(h, l, f) ==
    [heap |-> [h EXCEPT ![l].Execution.errors = f], ret |-> l]

(* l.considerRecordNotFoundError = b; return l *)
ConsiderNotFound(h, l, b) ==
    [heap |-> [h EXCEPT ![l].Execution.considerRecordNotFoundError = b], ret |-> l]

(* l.Config.SlowThreshold = t *)
SetSlowSqlThreshold(h, l, t) ==
    [heap |-> [h EXCEPT ![l].Config.SlowThreshold = t], ret |-> l]

-----------------------------------------------------------------------------
(* State machine *)

Objects == 1..Len(heap)

(* the package-level Default is object 1 *)
Default == 1

NoOut == [recv |-> 0, elapsed |-> 0, rows |-> 0, err |-> NoErr, events |-> <<>>]

NoArg == [fn |-> Nil, duration |-> 0, b |-> FALSE, level |-> 0]

Op(name, recv, ret, arg) == [name |-> name, recv |-> recv, ret |-> ret, arg |-> arg]

(* references through which the trigger methods can be called: the CInterface
   values of New and Default, and the results of a type assertion *)
Registrable == cRefs \cup asserted

Init ==
    /\ heap = <<customLogger(DefaultConfig)>>
    /\ cRefs = {Default}
    /\ asserted = {}
    /\ logModeRefs = {}
    /\ fixRefs = {}
    /\ last = Op("init", 0, Default, NoArg)
    /\ out = NoOut
    /\ nops = 0

(* a configuration call: the heap effect r, the operation record, no output *)
Configure(r, name, recv, arg) ==
    /\ nops < MaxOps
    /\ nops' = nops + 1
    /\ heap' = r.heap
    /\ last' = Op(name, recv, r.ret, arg)
    /\ out' = NoOut

CallNew ==
    \E config \in AppConfigs :
        /\ Len(heap) < MaxLoggers
        /\ Configure(New(heap, config), "New", 0, NoArg)
        /\ cRefs' = cRefs \cup {New(heap, config).ret}
        /\ UNCHANGED <<asserted, logModeRefs, fixRefs>>

CallLogMode ==
    \E l \in Objects, level \in Levels :
        /\ Len(heap) < MaxLoggers
        /\ Configure(LogMode(heap, l, level), "LogMode", l, [NoArg EXCEPT !.level = level])
        /\ logModeRefs' = logModeRefs \cup {LogMode(heap, l, level).ret}
        /\ UNCHANGED <<cRefs, asserted, fixRefs>>

CallFixTriggers ==
    \E l \in Objects :
        /\ Configure(FixTriggers(heap, l), "FixTriggers", l, NoArg)
        /\ fixRefs' = fixRefs \cup {FixTriggers(heap, l).ret}
        /\ UNCHANGED <<cRefs, asserted, logModeRefs>>

(* v.(CInterface) on a value LogMode or FixTriggers returned *)
TypeAssert ==
    \E l \in logModeRefs \cup fixRefs :
        /\ Configure([heap |-> heap, ret |-> l], "TypeAssert", l, NoArg)
        /\ asserted' = asserted \cup {l}
        /\ UNCHANGED <<cRefs, logModeRefs, fixRefs>>

CallAlwaysTrigger ==
    \E l \in Registrable, f \in FuncVals :
        /\ Configure(AlwaysTrigger(heap, l, f), "AlwaysTrigger", l, [NoArg EXCEPT !.fn = f])
        /\ UNCHANGED <<cRefs, asserted, logModeRefs, fixRefs>>

CallSlowTrigger ==
    \E l \in Registrable, f \in FuncVals, d \in TriggerDurations :
        /\ Configure(SlowTrigger(heap, l, f, d), "SlowTrigger", l,
                     [NoArg EXCEPT !.fn = f, !.duration = d])
        /\ UNCHANGED <<cRefs, asserted, logModeRefs, fixRefs>>

CallErrorTrigger ==
    \E l \in Registrable, f \in FuncVals :
        /\ Configure(ErrorTrigger(heap, l, f), "ErrorTrigger", l, [NoArg EXCEPT !.fn = f])
        /\ UNCHANGED <<cRefs, asserted, logModeRefs, fixRefs>>

CallConsiderNotFound ==
    \E l \in Registrable, b \in BOOLEAN :
        /\ Configure(ConsiderNotFound(heap, l, b), "ConsiderNotFound", l,
                     [NoArg EXCEPT !.b = b])
        /\ UNCHANGED <<cRefs, asserted, logModeRefs, fixRefs>>

CallSetSlowSqlThreshold ==
    \E l \in Objects, t \in Thresholds :
        /\ Configure(SetSlowSqlThreshold(heap, l, t), "SetSlowSqlThreshold", l,
                     [NoArg EXCEPT !.duration = t])
        /\ UNCHANGED <<cRefs, asserted, logModeRefs, fixRefs>>

(* a call that only produces output: the events ev of method name on l *)
Output(name, l, e, rows, err, ev) ==
    /\ nops < MaxOps
    /\ nops' = nops + 1
    /\ last' = Op(name, l, l, NoArg)
    /\ out' = [recv |-> l, elapsed |-> e, rows |-> rows, err |-> err, events |-> ev]
    /\ UNCHANGED <<heap, cRefs, asserted, logModeRefs, fixRefs>>

(* gorm (or the application) calls Trace on a logger; the receiver is copied *)
CallTrace ==
    \E l \in Objects, e \in Elapsed, rows \in RowCounts, err \in Errs :
        Output("Trace", l, e, rows, err, Trace(heap[l], e, rows, err))

CallInfo == \E l \in Objects : Output("Info", l, 0, 0, NoErr, Info(heap[l], "msg"))

CallWarn == \E l \in Objects : Output("Warn", l, 0, 0, NoErr, Warn(heap[l], "msg"))

CallError == \E l \in Objects : Output("Error", l, 0, 0, NoErr, Error(heap[l], "msg"))

Next ==
    \/ CallNew
    \/ CallLogMode
    \/ CallFixTriggers
    \/ TypeAssert
    \/ CallAlwaysTrigger
    \/ CallSlowTrigger
    \/ CallErrorTrigger
    \/ CallConsiderNotFound
    \/ CallSetSlowSqlThreshold
    \/ CallTrace
    \/ CallInfo
    \/ CallWarn
    \/ CallError

Spec == Init /\ [][Next]_vars

-----------------------------------------------------------------------------
(* Trace as a function of the logger it is called on: the logger is any one
   the chain New(config).AlwaysTrigger(a).SlowTrigger(w, d).ErrorTrigger(e)
   .ConsiderNotFound(b) builds, and the call examined is the last one of the
   run. *)

(* the four registration calls of a chain, by name *)
Register(h, l, k, a, w, d, e, b) ==
    CASE k = "AlwaysTrigger" -> AlwaysTrigger(h, l, a)
      [] k = "SlowTrigger" -> SlowTrigger(h, l, w, d)
      [] k = "ErrorTrigger" -> ErrorTrigger(h, l, e)
      [] OTHER -> ConsiderNotFound(h, l, b)

(* the orders in which a chain can make the four calls *)
Orders ==
    {o \in [1..4 -> {"AlwaysTrigger", "SlowTrigger", "ErrorTrigger", "ConsiderNotFound"}] :
        \A i, j \in 1..4 : i # j => o[i] # o[j]}

Chain(config, o, a, w, d, e, b) ==
    LET h0 == New(<<>>, config)
        h1 == Register(h0.heap, h0.ret, o[1], a, w, d, e, b)
        h2 == Register(h1.heap, h1.ret, o[2], a, w, d, e, b)
        h3 == Register(h2.heap, h2.ret, o[3], a, w, d, e, b)
    IN  Register(h3.heap, h3.ret, o[4], a, w, d, e, b)

InitTrace ==
    \E config \in Configs, o \in Orders, a \in FuncVals, w \in FuncVals,
       d \in TriggerDurations, e \in FuncVals, b \in BOOLEAN :
        /\ heap = Chain(config, o, a, w, d, e, b).heap
        /\ cRefs = {Chain(config, o, a, w, d, e, b).ret}
        /\ asserted = {}
        /\ logModeRefs = {}
        /\ fixRefs = {}
        /\ last = Op("chain", 0, Chain(config, o, a, w, d, e, b).ret, NoArg)
        /\ out = NoOut
        /\ nops = MaxOps - 1

NextTrace ==
    \/ CallTrace
    \/ CallInfo
    \/ CallWarn
    \/ CallError

SpecTrace == InitTrace /\ [][NextTrace]_vars

-----------------------------------------------------------------------------
(* Reading the events of the last call *)

IsTrace == last.name = "Trace"

(* the logger the last output call ran on *)
Recv == heap[out.recv]

IsCall(ev) == ev.kind = "call"

IsPrintf(ev) == ev.kind = "printf"

CallsOf(evs) == SelectSeq(evs, IsCall)

PrintsOf(evs) == SelectSeq(evs, IsPrintf)

SlotRank(slot) ==
    CASE slot = "always" -> 1 [] slot = "warns" -> 2 [] slot = "errors" -> 3

Fired(evs, slot) == \E i \in 1..Len(evs) : IsCall(evs[i]) /\ evs[i].slot = slot

FiredCount(evs, slot) ==
    Cardinality({i \in 1..Len(evs) : IsCall(evs[i]) /\ evs[i].slot = slot})

(* the three lines Trace can write; the plain error and warn templates are the
   same string, so the second argument tells them apart *)
ErrorLine(l, elapsed, rows, err) ==
    [kind |-> "printf", format |-> l.tmpl.traceErrStr,
     args |-> <<FileWithLineNum, err, Millis3(elapsed), RowsArg(rows), Sql>>]

SlowLine(l, elapsed, rows) ==
    [kind |-> "printf", format |-> l.tmpl.traceWarnStr,
     args |-> <<FileWithLineNum, "SLOW SQL >= " \o DurationString(l.Config.SlowThreshold),
                Millis3(elapsed), RowsArg(rows), Sql>>]

InfoLine(l, elapsed, rows) ==
    [kind |-> "printf", format |-> l.tmpl.traceStr,
     args |-> <<FileWithLineNum, Millis3(elapsed), RowsArg(rows), Sql>>]

WroteErrorLine ==
    \E i \in 1..Len(out.events) :
        out.events[i] = ErrorLine(Recv, out.elapsed, out.rows, out.err)

WroteSlowLine ==
    \E i \in 1..Len(out.events) : out.events[i] = SlowLine(Recv, out.elapsed, out.rows)

-----------------------------------------------------------------------------
(* C1: in every Trace call the callbacks that fire run in the order always,
   slow, error, each at most once and each the function registered in its
   slot, and all of them run before the formatted line is written; the loggers
   examined are built by chains in every registration order. *)
C1_TriggerOrder ==
    IsTrace =>
        LET evs == out.events IN
        /\ \A i, j \in 1..Len(evs) :
              (i < j /\ IsCall(evs[i]) /\ IsCall(evs[j]))
                  => SlotRank(evs[i].slot) < SlotRank(evs[j].slot)
        /\ \A i, j \in 1..Len(evs) : (IsPrintf(evs[i]) /\ IsCall(evs[j])) => j < i
        /\ \A i \in 1..Len(evs) :
              IsCall(evs[i]) =>
                  /\ evs[i].fn # Nil
                  /\ evs[i].fn = Recv.Execution[evs[i].slot]
                  /\ evs[i].g.Err = out.err

(* a slow, erroring statement on a logger with three different callbacks: all
   three fire and a line follows *)
C1_Witness ==
    /\ IsTrace
    /\ Len(out.events) = 4
    /\ Recv.Execution.always = "f2"
    /\ Recv.Execution.warns = "f1"
    /\ Recv.Execution.errors = "f2"
    /\ <<out.events[1].slot, out.events[2].slot, out.events[3].slot>>
           = <<"always", "warns", "errors">>
    /\ IsPrintf(out.events[4])

(* C2: the callbacks Trace invokes are the same at every log level, and at
   Silent (or below) nothing is written while the always and error callbacks
   still fire. *)
C2_TriggersIgnoreLevel ==
    IsTrace =>
        /\ \A lv \in Levels :
              CallsOf(Trace([Recv EXCEPT !.Config.LogLevel = lv],
                            out.elapsed, out.rows, out.err))
                  = CallsOf(out.events)
        /\ Recv.Config.LogLevel <= lgSilent =>
              /\ PrintsOf(out.events) = <<>>
              /\ Recv.Execution.always # Nil => Fired(out.events, "always")
              /\ (/\ Recv.Execution.errors # Nil
                  /\ out.err # NoErr
                  /\ (~IsRecordNotFound(out.err)
                        \/ Recv.Execution.considerRecordNotFoundError))
                    => Fired(out.events, "errors")

(* a slow, erroring statement at Silent: the callbacks fire, nothing is written *)
C2_Witness ==
    /\ IsTrace
    /\ Recv.Config.LogLevel = lgSilent
    /\ Recv.Config.SlowThreshold = 200
    /\ out.elapsed = 250
    /\ out.err = OtherErr
    /\ Fired(out.events, "always")
    /\ Fired(out.events, "errors")
    /\ PrintsOf(out.events) = <<>>

(* C3: the error callback is invoked, once, exactly when err is non-nil, an
   error callback is registered and err is not record-not-found or
   considerNotFound is true; IgnoreRecordNotFoundError plays no part. *)
C3_ErrorTriggerCondition ==
    IsTrace =>
        /\ Fired(out.events, "errors")
              <=> (/\ out.err # NoErr
                   /\ Recv.Execution.errors # Nil
                   /\ (~IsRecordNotFound(out.err)
                         \/ Recv.Execution.considerRecordNotFoundError))
        /\ FiredCount(out.events, "errors") <= 1

(* record-not-found with considerNotFound on a logger that ignores it in its
   lines: the error callback fires *)
C3_Witness ==
    /\ IsTrace
    /\ out.err = ErrRecordNotFound
    /\ Recv.Execution.considerRecordNotFoundError
    /\ Recv.Config.IgnoreRecordNotFoundError
    /\ Fired(out.events, "errors")

(* the scenario of C4: SlowThreshold 200ms, level Warn, plain templates, 50ms *)
C4_Scenario ==
    /\ Recv.Config.SlowThreshold = 200
    /\ Recv.Config.LogLevel = lgWarn
    /\ ~Recv.Config.Colorful
    /\ out.elapsed = 50

(* C4 as stated: with considerNotFound false and a record-not-found error no
   error-trace line is written at any level, and in the scenario nothing is
   written, the error callback stays silent, the always callback gets the error. *)
C4_Original ==
    (IsTrace /\ IsRecordNotFound(out.err)
            /\ ~Recv.Execution.considerRecordNotFoundError) =>
        /\ ~WroteErrorLine
        /\ C4_Scenario =>
              /\ PrintsOf(out.events) = <<>>
              /\ ~Fired(out.events, "errors")
              /\ Recv.Execution.always # Nil =>
                    (Fired(out.events, "always") /\ out.events[1].g.Err = out.err)

(* C4 amended: the error-trace line of a record-not-found error is decided by
   IgnoreRecordNotFoundError alone (none when it is true; written at every
   level >= Error when it is false), whatever considerNotFound is; the
   callbacks of the scenario are as stated, and the scenario writes nothing
   when IgnoreRecordNotFoundError is true. *)
C4_NotFoundLine ==
    (IsTrace /\ IsRecordNotFound(out.err)) =>
        /\ Recv.Config.IgnoreRecordNotFoundError => ~WroteErrorLine
        /\ (~Recv.Config.IgnoreRecordNotFoundError /\ Recv.Config.LogLevel >= lgError)
              => PrintsOf(out.events)
                     = <<ErrorLine(Recv, out.elapsed, out.rows, out.err)>>
        /\ ~Recv.Execution.considerRecordNotFoundError => ~Fired(out.events, "errors")
        /\ Recv.Execution.always # Nil =>
              (Fired(out.events, "always") /\ out.events[1].g.Err = out.err)
        /\ (C4_Scenario /\ Recv.Config.IgnoreRecordNotFoundError)
              => PrintsOf(out.events) = <<>>

(* the scenario on a logger that ignores record-not-found in its lines but
   considers it for the error trigger: only the callbacks run *)
C4_Witness ==
    /\ IsTrace
    /\ out.err = ErrRecordNotFound
    /\ C4_Scenario
    /\ Recv.Config.IgnoreRecordNotFoundError
    /\ Recv.Execution.considerRecordNotFoundError
    /\ Recv.Execution.always # Nil
    /\ Fired(out.events, "always")
    /\ Fired(out.events, "errors")
    /\ PrintsOf(out.events) = <<>>

(* C9: above Silent, Trace writes the line of the first matching case among
   error, slow, info, and no line otherwise. *)
C9_FirstMatchLine ==
    (IsTrace /\ Recv.Config.LogLevel > lgSilent) =>
        LET lv == Recv.Config.LogLevel
            isErr == /\ out.err # NoErr
                     /\ lv >= lgError
                     /\ (~IsRecordNotFound(out.err)
                           \/ ~Recv.Config.IgnoreRecordNotFoundError)
            isSlow == /\ Recv.Config.SlowThreshold # 0
                      /\ out.elapsed > Recv.Config.SlowThreshold
                      /\ lv >= lgWarn
        IN  /\ Len(PrintsOf(out.events)) <= 1
            /\ PrintsOf(out.events) =
                  IF isErr THEN <<ErrorLine(Recv, out.elapsed, out.rows, out.err)>>
                  ELSE IF isSlow THEN <<SlowLine(Recv, out.elapsed, out.rows)>>
                  ELSE IF lv = lgInfo THEN <<InfoLine(Recv, out.elapsed, out.rows)>>
                  ELSE <<>>
            /\ (out.err = NoErr /\ lv = lgError) => PrintsOf(out.events) = <<>>
            /\ (/\ Recv.Config.SlowThreshold = 200
                /\ lv = lgWarn
                /\ ~Recv.Config.Colorful
                /\ out.elapsed = 250
                /\ out.rows = 3
                /\ out.err = NoErr)
                  => PrintsOf(out.events) =
                         <<[kind |-> "printf",
                            format |-> "%s %s\n[%.3fms] [rows:%v] %s",
                            args |-> <<FileWithLineNum, "SLOW SQL >= 200ms",
                                       "250.000", "3", Sql>>]>>

(* a slow, erroring statement at level Info: only the error line is written *)
C9_Witness ==
    /\ IsTrace
    /\ Recv.Config.LogLevel = lgInfo
    /\ Recv.Config.SlowThreshold = 200
    /\ out.elapsed = 250
    /\ out.err = OtherErr
    /\ PrintsOf(out.events) = <<ErrorLine(Recv, out.elapsed, out.rows, out.err)>>

(* C10: the slow callback depends on the SlowTrigger duration alone and the
   slow line on SlowThreshold and the level alone. *)
C10_IndependentThresholds ==
    IsTrace =>
        /\ Fired(out.events, "warns")
              <=> (/\ Recv.Execution.warns # Nil
                   /\ Recv.Execution.slowSqlTrigger # 0
                   /\ out.elapsed > Recv.Execution.slowSqlTrigger)
        /\ WroteSlowLine =>
              (/\ Recv.Config.SlowThreshold # 0
               /\ out.elapsed > Recv.Config.SlowThreshold
               /\ Recv.Config.LogLevel >= lgWarn)
        /\ (/\ out.err = NoErr
            /\ Recv.Config.SlowThreshold # 0
            /\ out.elapsed > Recv.Config.SlowThreshold
            /\ Recv.Config.LogLevel >= lgWarn)
              => WroteSlowLine

(* 200ms elapsed with a 100ms trigger and a 200ms SlowThreshold: the callback
   fires and no slow line is written *)
C10_Witness ==
    /\ IsTrace
    /\ out.elapsed = 200
    /\ out.err = NoErr
    /\ Recv.Execution.slowSqlTrigger = 100
    /\ Recv.Config.SlowThreshold = 200
    /\ Recv.Config.LogLevel = lgWarn
    /\ Fired(out.events, "warns")
    /\ ~WroteSlowLine

-----------------------------------------------------------------------------
(* Claims about references *)

RegNames == {"AlwaysTrigger", "SlowTrigger", "ErrorTrigger", "ConsiderNotFound"}

(* C5: LogMode leaves its receiver as it was and returns another logger that
   differs from the receiver in the level alone. *)
C5_LogModeKeepsReceiver ==
    [][last'.name = "LogMode" =>
          LET d1 == last'.recv
              d2 == last'.ret
          IN  /\ d2 # d1
              /\ heap'[d1] = heap[d1]
              /\ heap'[d2] = [heap[d1] EXCEPT !.Config.LogLevel = last'.arg.level]
              /\ \A e \in Elapsed, rows \in RowCounts, err \in Errs :
                    Trace(heap'[d1], e, rows, err) = Trace(heap[d1], e, rows, err)
              /\ Info(heap'[d1], "msg") = Info(heap[d1], "msg")
              /\ Warn(heap'[d1], "msg") = Warn(heap[d1], "msg")
              /\ Error(heap'[d1], "msg") = Error(heap[d1], "msg")]_vars

(* LogMode(Info) on a logger at Warn: the receiver is still at Warn *)
C5_Witness ==
    /\ last.name = "LogMode"
    /\ last.ret # last.recv
    /\ last.arg.level = lgInfo
    /\ heap[last.recv].Config.LogLevel = lgWarn
    /\ heap[last.ret].Config.LogLevel = lgInfo

(* C6: the logger LogMode returns has the receiver's triggers, is a new
   object, and a later registration call changes only the logger it is made on. *)
C6_IndependentTriggers ==
    [][/\ last'.name = "LogMode" =>
             /\ last'.ret \notin 1..Len(heap)
             /\ heap'[last'.ret].Execution = heap[last'.recv].Execution
       /\ last'.name \in RegNames =>
             \A o \in 1..Len(heap) : o # last'.recv => heap'[o] = heap[o]]_vars

(* a trigger registered before LogMode is on both loggers, one registered on
   the original afterwards is on the original alone *)
C6_Witness ==
    /\ last.name = "ErrorTrigger"
    /\ last.recv = Default
    /\ \E o \in logModeRefs :
          /\ o # Default
          /\ heap[o].Execution.always = "f1"
          /\ heap[Default].Execution.always = "f1"
          /\ heap[o].Execution.errors = Nil
          /\ heap[Default].Execution.errors = "f2"

(* C7: a registration call returns its receiver, allocates nothing, and
   replaces on the receiver what it registers and nothing else; Trace on the
   receiver then invokes a registered always callback first. *)
C7_RegistrationInPlace ==
    [][last'.name \in RegNames =>
          LET r == last'.recv
              a == last'.arg
          IN  /\ last'.ret = r
              /\ Len(heap') = Len(heap)
              /\ heap'[r].Config = heap[r].Config
              /\ heap'[r].tmpl = heap[r].tmpl
              /\ heap'[r].Execution =
                    CASE last'.name = "AlwaysTrigger" ->
                             [heap[r].Execution EXCEPT !.always = a.fn]
                      [] last'.name = "SlowTrigger" ->
                             [heap[r].Execution EXCEPT !.warns = a.fn,
                                                       !.slowSqlTrigger = a.duration]
                      [] last'.name = "ErrorTrigger" ->
                             [heap[r].Execution EXCEPT !.errors = a.fn]
                      [] OTHER ->
                             [heap[r].Execution EXCEPT !.considerRecordNotFoundError = a.b]
              /\ (last'.name = "AlwaysTrigger" /\ a.fn # Nil) =>
                    \A e \in Elapsed, rows \in RowCounts, err \in Errs :
                        Head(Trace(heap'[r], e, rows, err)).fn = a.fn]_vars

(* the second and third call of a chain on Default *)
C7_Witness ==
    /\ last.name = "AlwaysTrigger"
    /\ last.recv = Default
    /\ last.ret = Default
    /\ heap[Default].Execution.always = "f2"
    /\ heap[Default].Execution.errors = "f1"
    /\ heap[Default].Execution.warns = "f1"

(* C8 as stated: the triggers of a logger that LogMode or FixTriggers returned
   do not change unless the application asserts that value back to CInterface. *)
C8_Original ==
    [][\A o \in logModeRefs \cup fixRefs :
          o \notin asserted' => heap'[o].Execution = heap[o].Execution]_vars

(* C8 amended: this holds of the loggers LogMode returned. *)
C8_LogModeResultFrozen ==
    [][\A o \in logModeRefs :
          o \notin asserted' => heap'[o].Execution = heap[o].Execution]_vars

(* a registration on the receiver after LogMode reaches the receiver alone *)
C8_Witness ==
    /\ last.name = "AlwaysTrigger"
    /\ last.arg.fn = "f1"
    /\ last.recv \notin logModeRefs
    /\ \E o \in logModeRefs \ asserted :
          /\ heap[o].Execution.always = Nil
          /\ heap[last.recv].Execution.always = "f1"

====
